---- MODULE Spec2Model ----
(***************************************************************************)
(* Board matcher: the text normaliser (data_parser.py), the TF-IDF index   *)
(* (tfidf_model.py) and the /upload and /match handlers (main.py).         *)
(*                                                                         *)
(* Text is a sequence of one-character strings, so that substring removal, *)
(* the regular expressions and the vectoriser's tokenisation are computed  *)
(* character by character, as the code computes them.                      *)
(***************************************************************************)
EXTENDS Integers, Sequences, FiniteSets

\* Python's None.
None == [type |-> "NoneType"]

Min(S) == CHOOSE x \in S : \A y \in S : x <= y

Max(S) == CHOOSE x \in S : \A y \in S : x >= y

(***************************************************************************)
(* DataParser.normalize_text                                               *)
(***************************************************************************)

UpperCase == <<"A","B","C","D","E","F","G","H","I","J","K","L","M","N","O","P","Q","R","S","T","U","V","W","X","Y","Z">>

LowerCase == <<"a","b","c","d","e","f","g","h","i","j","k","l","m","n","o","p","q","r","s","t","u","v","w","x","y","z">>

Digits == {"0","1","2","3","4","5","6","7","8","9"}

\* \w of Python's re on str, restricted to ASCII.
IsWord(c) ==
    \/ \E i \in 1..26 : c = LowerCase[i] \/ c = UpperCase[i]
    \/ c \in Digits
    \/ c = "_"

\* \s of Python's re.
IsSpace(c) == c \in {" ", "\t", "\n", "\r"}

LowerChar(c) ==
    IF \E i \in 1..26 : c = UpperCase[i]
    THEN LowerCase[CHOOSE i \in 1..26 : c = UpperCase[i]]
    ELSE c

\* str.lower()
lower(text) == [i \in 1..Len(text) |-> LowerChar(text[i])]

\* text[i-1 : i-1+len(s)] == s, positions counted from 1.
StartsWithAt(text, s, i) ==
    /\ i + Len(s) - 1 <= Len(text)
    /\ \A j \in 1..Len(s) : text[i + j - 1] = s[j]

\* str.replace(s, ""), scanning from position i: leftmost occurrences, not
\* overlapping, in one pass; what a removal joins is not scanned again.
RECURSIVE replace(_, _, _)
replace(text, s, i) ==
    LET found == {j \in i..Len(text) : StartsWithAt(text, s, j)}
    IN  IF found = {} THEN SubSeq(text, i, Len(text))
        ELSE SubSeq(text, i, Min(found) - 1) \o replace(text, s, Min(found) + Len(s))

ignore_strings ==
    << <<"n","o"," ","b","o","a","r","d"," ","s","e","r","v","i","c","e"," ","i","n","f","o">>,
       <<"n","o"," ","e","m","p","l","o","y","m","e","n","t"," ","i","n","f","o","r","m","a","t","i","o","n"," ","p","r","o","v","i","d","e","d">>,
       <<"n","o"," ","i","n","f","o"," ","a","v","a","i","l","a","b","l","e">>,
       <<"n","o"," ","e","m","p","l","o","y","m","e","n","t","/","m","i","l","i","t","a","r","y"," ","i","n","f","o"," ","i","n"," ","d","a","t","a","b","a","s","e">>,
       <<"r","e","t","i","r","e","d">>,
       <<"(","r","e","t","i","r","e","d",")">>,
       <<"n","o"," ","e","m","p","l","o","y","m","e","n","t"," ","i","n","f","o">>,
       <<"n","o"," ","b","o","a","r","d"," ","s","e","r","v","i","c","e"," ","i","n","f","o","r","m","a","t","i","o","n"," ","p","r","o","v","i","d","e","d">>,
       <<"n","o"," ","k","n","o","w","n"," ","b","o","a","r","d"," ","r","o","l","e","s">>,
       <<"n","o"," ","p","u","b","l","i","c","l","y"," ","k","n","o","w","n"," ","b","o","a","r","d"," ","p","o","s","i","t","i","o","n","s">>,
       <<"n","o"," ","b","o","a","r","d"," ","a","f","f","i","l","i","a","t","i","o","n","s"," ","f","o","u","n","d",".">>,
       <<"n","o"," ","b","o","a","r","d"," ","s","e","r","v","i","c","e"," ","i","d","e","n","t","i","f","i","e","d">>,
       <<"n","o"," ","f","o","r","m","a","l"," ","b","o","a","r","d"," ","s","e","r","v","i","c","e"," ","i","d","e","n","t","i","f","i","e","d">>,
       <<"n","o"," ","p","r","o","f","e","s","s","i","o","n","a","l"," ","i","n","f","o","r","m","a","t","i","o","n">>,
       <<"n","o"," ","b","o","a","r","d"," ","r","o","l","e","s"," ","i","d","e","n","t","i","f","i","e","d">>,
       <<"n","o"," ","e","x","p","l","i","c","i","t"," ","b","o","a","r","d"," ","m","e","m","b","e","r","s","h","i","p","s"," ","f","o","u","n","d">>,
       <<"n","o"," ","i","n","f","o","r","m","a","t","i","o","n"," ","f","o","u","n","d">>,
       <<"n","o"," ","i","n","f","o","r","m","a","t","i","o","n"," ","f","o","u","n","d"," ","-"," ","r","e","f","e","r","s"," ","t","o"," ","f","a","c","i","l","i","t","i","e","s"," ","n","o","t"," ","a"," ","p","e","r","s","o","n">>,
       <<"n","o","n","p","r","o","f","i","t",":"," ","n","o","n","e">> >>

org_suffixes ==
    << <<"i","n","c">>,
       <<"c","o","r","p">>,
       <<"c","o","r","p","o","r","a","t","i","o","n">>,
       <<"l","t","d">>,
       <<"l","l","c">>,
       <<"c","o">>,
       <<"c","o","m","p","a","n","y">>,
       <<"f","o","u","n","d","a","t","i","o","n">>,
       <<"i","n","s","t","i","t","u","t","e">>,
       <<"u","n","i","v","e","r","s","i","t","y">>,
       <<"c","o","l","l","e","g","e">>,
       <<"a","c","a","d","e","m","y">>,
       <<"a","s","s","o","c","i","a","t","i","o","n">>,
       <<"g","r","o","u","p">>,
       <<"h","o","l","d","i","n","g","s">> >>

role_titles ==
    << <<"c","e","o">>,
       <<"c","f","o">>,
       <<"c","o","o">>,
       <<"p","r","e","s","i","d","e","n","t">>,
       <<"c","h","a","i","r">>,
       <<"d","i","r","e","c","t","o","r">>,
       <<"m","e","m","b","e","r">>,
       <<"t","r","u","s","t","e","e">>,
       <<"s","e","c","r","e","t","a","r","y">>,
       <<"t","r","e","a","s","u","r","e","r">>,
       <<"a","d","v","i","s","o","r">>,
       <<"o","f","f","i","c","e","r">>,
       <<"r","e","s","e","a","r","c","h","e","r">>,
       <<"m","a","n","a","g","i","n","g"," ","d","i","r","e","c","t","o","r">> >>

stopwords ==
    << <<"t","h","e">>,
       <<"o","f">>,
       <<"a","n","d">>,
       <<"a">>,
       <<"a","n">>,
       <<"f","o","r">>,
       <<"i","n">>,
       <<"o","n">>,
       <<"a","t">>,
       <<"b","y">>,
       <<"w","i","t","h">> >>


\* for s in ignore_strings: text = text.replace(s, ""), for the strings from
\* the lo-th to the hi-th, in the list's order: the first half of them, then
\* the second half on what the first half left (halving keeps the evaluation
\* shallow; the order of the removals is the loop's).
RECURSIVE remove_ignore_strings(_, _, _)
remove_ignore_strings(text, lo, hi) ==
    IF lo > hi THEN text
    ELSE IF lo = hi THEN replace(text, ignore_strings[lo], 1)
    ELSE CHOOSE result \in
            {remove_ignore_strings(first, ((lo + hi) \div 2) + 1, hi) :
                first \in {remove_ignore_strings(text, lo, (lo + hi) \div 2)}} : TRUE

\* \b before position i (i = Len(text) + 1: the end of the text).
WordBoundary(text, i) ==
    LET before == i > 1 /\ i - 1 <= Len(text) /\ IsWord(text[i - 1])
        after == i >= 1 /\ i <= Len(text) /\ IsWord(text[i])
    IN  before # after

\* First position >= i that holds no whitespace (\s* is greedy, and what follows
\* it in both patterns is not whitespace, so no shorter run is ever tried).
SkipSpaces(text, i) ==
    Min({j \in i..(Len(text) + 1) : j = Len(text) + 1 \/ ~IsSpace(text[j])})

FourDigits(text, i) ==
    /\ i + 3 <= Len(text)
    /\ \A j \in 0..3 : text[i + j] \in Digits

\* \b(w1|w2|...)\b at position i: the length matched, 0 for no match. The
\* alternatives are tried in order; one whose closing \b fails is given up for
\* the next.
WordAltMatch(text, alts, i) ==
    IF ~WordBoundary(text, i) THEN 0
    ELSE LET hits == {k \in 1..Len(alts) :
                        /\ StartsWithAt(text, alts[k], i)
                        /\ WordBoundary(text, i + Len(alts[k]))}
         IN  IF hits = {} THEN 0 ELSE Len(alts[Min(hits)])

\* <br\s*/?> at position i: the length matched, 0 for no match.
BrMatch(text, i) ==
    IF ~StartsWithAt(text, <<"<","b","r">>, i) THEN 0
    ELSE LET j == SkipSpaces(text, i + 3)
             k == IF j <= Len(text) /\ text[j] = "/" THEN j + 1 ELSE j
         IN  IF k <= Len(text) /\ text[k] = ">" THEN k + 1 - i ELSE 0

\* \d{4}\s*-\s*(\d{4}|present) at position i: the length matched, 0 for no match.
YearMatch(text, i) ==
    IF ~FourDigits(text, i) THEN 0
    ELSE LET j == SkipSpaces(text, i + 4)
         IN  IF ~(j <= Len(text) /\ text[j] = "-") THEN 0
             ELSE LET k == SkipSpaces(text, j + 1)
                  IN  IF FourDigits(text, k) THEN k + 4 - i
                      ELSE IF StartsWithAt(text, <<"p","r","e","s","e","n","t">>, k)
                           THEN k + 7 - i
                      ELSE 0

\* [^\w\s] at position i.
PunctMatch(text, i) == IF IsWord(text[i]) \/ IsSpace(text[i]) THEN 0 ELSE 1

\* \s+ at position i.
SpacesMatch(text, i) == SkipSpaces(text, i) - i

PatternMatch(pattern, text, i) ==
    CASE pattern = "br" -> BrMatch(text, i)
      [] pattern = "suffix" -> WordAltMatch(text, org_suffixes, i)
      [] pattern = "title" -> WordAltMatch(text, role_titles, i)
      [] pattern = "stopword" -> WordAltMatch(text, stopwords, i)
      [] pattern = "years" -> YearMatch(text, i)
      [] pattern = "punct" -> PunctMatch(text, i)
      [] pattern = "spaces" -> SpacesMatch(text, i)

\* re.sub(pattern, " ", text), scanning from position i: leftmost matches, not
\* overlapping, each replaced by one space.
RECURSIVE re_sub(_, _, _)
re_sub(pattern, text, i) ==
    LET found == {j \in i..Len(text) : PatternMatch(pattern, text, j) > 0}
    IN  IF found = {} THEN SubSeq(text, i, Len(text))
        ELSE LET j == Min(found)
             IN  SubSeq(text, i, j - 1) \o <<" ">>
                     \o re_sub(pattern, text, j + PatternMatch(pattern, text, j))

\* str.strip()
strip(text) ==
    LET keep == {i \in 1..Len(text) : ~IsSpace(text[i])}
    IN  IF keep = {} THEN <<>> ELSE SubSeq(text, Min(keep), Max(keep))

\* The re.sub calls of normalize_text, in the order it makes them.
substitutions == <<"br", "suffix", "title", "stopword", "years", "punct", "spaces">>

\* text = re.sub(..., " ", text) for the k-th substitution and those after it.
RECURSIVE substitute(_, _)
substitute(text, k) ==
    IF k > Len(substitutions) THEN text
    ELSE CHOOSE result \in {substitute(replaced, k + 1) :
                               replaced \in {re_sub(substitutions[k], text, 1)}} : TRUE

normalize_text(text) ==
    IF text = <<>> THEN <<>>
    ELSE strip(substitute(remove_ignore_strings(lower(text), 1, Len(ignore_strings)), 1))

(***************************************************************************)
(* TFIDFModel                                                              *)
(*                                                                         *)
(* Weights and raw scores are fixed-point integers (float64 in the code):  *)
(* an idf is kept in tenths, a cosine in thousandths. A normalised score   *)
(* is an exact fraction <<numerator, denominator>> in lowest terms.        *)
(***************************************************************************)

Range(f) == {f[i] : i \in DOMAIN f}

\* The outcome of a call: the exception it raised, or the value it returned.
Raise(e) == [exception |-> e]

Return(v) == [value |-> v]

Raised(outcome) == "exception" \in DOMAIN outcome

\* The elements of a set of integers, ascending.
SortedSeq(S) ==
    [k \in 1..Cardinality(S) |->
        CHOOSE x \in S : Cardinality({y \in S : y < x}) = k - 1]

RECURSIVE Str(_)
Str(chars) == IF chars = <<>> THEN "" ELSE Head(chars) \o Str(Tail(chars))

RECURSIVE SumOver(_, _)
SumOver(S, f) ==
    IF S = {} THEN 0
    ELSE LET x == CHOOSE y \in S : TRUE IN f[x] + SumOver(S \ {x}, f)

RECURSIVE ISqrtIn(_, _, _)
ISqrtIn(x, lo, hi) ==
    IF lo >= hi THEN lo
    ELSE LET mid == (lo + hi + 1) \div 2
         IN  IF mid * mid <= x THEN ISqrtIn(x, mid, hi) ELSE ISqrtIn(x, lo, mid - 1)

\* Largest r with r * r <= x.
ISqrt(x) == ISqrtIn(x, 0, 46340)

RECURSIVE Gcd(_, _)
Gcd(a, b) == IF b = 0 THEN a ELSE Gcd(b, a % b)

Frac(n, d) == <<n \div Gcd(n, d), d \div Gcd(n, d)>>

FracGE(a, b) == a[1] * b[2] >= b[1] * a[2]

\* TfidfVectorizer(max_features=10000, ngram_range=(1, 2)); the corpora of this
\* model hold far fewer terms than max_features, so the cap never prunes.
max_features == 10000

\* The tokens of token_pattern (?u)\b\w\w+\b, sklearn's default: the maximal
\* runs of two or more word characters, in order.
tokenize(text) ==
    LET starts == {i \in 1..Len(text) :
                     IsWord(text[i]) /\ (i = 1 \/ ~IsWord(text[i - 1]))}
        end(i) == Min({j \in i..Len(text) : j = Len(text) \/ ~IsWord(text[j + 1])})
        long == SortedSeq({i \in starts : end(i) > i})
    IN  [k \in 1..Len(long) |-> Str(SubSeq(text, long[k], end(long[k])))]

\* _word_ngrams for ngram_range (1, 2): the tokens, then the adjacent pairs
\* joined by one space.
word_ngrams(tokens) ==
    tokens \o [i \in 1..(Len(tokens) - 1) |-> tokens[i] \o " " \o tokens[i + 1]]

\* build_analyzer(): lowercase=True, tokenise, n-grams.
analyze(text) == word_ngrams(tokenize(lower(text)))

term_count(terms, t) == Cardinality({i \in 1..Len(terms) : terms[i] = t})

\* 10 * ln(k), rounded, for k = 1..9.
Ln10 == <<0, 7, 11, 14, 16, 18, 19, 21, 22>>

\* smooth_idf: ln((1 + n) / (1 + df)) + 1, in tenths.
idf_of(n, df) == 10 + Ln10[1 + n] - Ln10[1 + df]

\* One document's tf * idf row over the vocabulary; its l2 normalisation is
\* left to cosine, which divides by the norms.
tfidf_row(terms, vocabulary, idf) ==
    [t \in vocabulary |-> term_count(terms, t) * idf[t]]

\* TfidfVectorizer.fit_transform: ValueError("empty vocabulary; ...") when no
\* document holds a token.
fit_transform(corpus_texts) ==
    LET n == Len(corpus_texts)
        docs == [i \in 1..n |-> analyze(corpus_texts[i])]
        vocabulary == UNION {Range(docs[i]) : i \in 1..n}
        idf == [t \in vocabulary |->
                   idf_of(n, Cardinality({i \in 1..n : t \in Range(docs[i])}))]
    IN  IF vocabulary = {} THEN Raise("ValueError")
        ELSE Return([vocabulary_ |-> vocabulary,
                     idf_ |-> idf,
                     X |-> [i \in 1..n |-> tfidf_row(docs[i], vocabulary, idf)]])

\* TFIDFModel.__init__
TFIDFModel ==
    [vectorizer |-> [fitted |-> FALSE],
     corpus_tfidf |-> None, corpus_texts |-> None, df |-> None]

\* TFIDFModel.fit_corpus(df, ['employment_norm', 'board_service_norm']): the
\* model after the call, and whether the call raised. df and corpus_texts are
\* assigned before the vectoriser is fitted.
fit_corpus(self, df) ==
    LET corpus_texts ==
            [i \in 1..Len(df.rows) |->
                df.rows[i].employment_norm \o <<" ">> \o df.rows[i].board_service_norm]
        fitted == fit_transform(corpus_texts)
        started == [self EXCEPT !.df = df, !.corpus_texts = corpus_texts]
    IN  IF Raised(fitted)
        THEN [raised |-> TRUE, self |-> started]
        ELSE [raised |-> FALSE,
              self |-> [started EXCEPT
                          !.vectorizer = [fitted |-> TRUE,
                                          vocabulary_ |-> fitted.value.vocabulary_,
                                          idf_ |-> fitted.value.idf_],
                          !.corpus_tfidf = fitted.value.X]]

\* cosine_similarity of two tf-idf rows, in thousandths; 0 when either is zero.
ScoreScale == 1000

cosine(u, v, vocabulary) ==
    LET dot == SumOver(vocabulary, [t \in vocabulary |-> u[t] * v[t]])
        uu == SumOver(vocabulary, [t \in vocabulary |-> u[t] * u[t]])
        vv == SumOver(vocabulary, [t \in vocabulary |-> v[t] * v[t]])
    IN  IF uu = 0 \/ vv = 0 THEN 0 ELSE (dot * ScoreScale) \div ISqrt(uu * vv)

\* TFIDFModel.compute_similarity: vectorizer.transform raises NotFittedError on
\* a vectoriser that was never fitted.
compute_similarity(self, query) ==
    IF ~self.vectorizer.fitted THEN Raise("NotFittedError")
    ELSE LET vocabulary == self.vectorizer.vocabulary_
             query_vec == tfidf_row(analyze(query), vocabulary, self.vectorizer.idf_)
         IN  Return([i \in 1..Len(self.corpus_tfidf) |->
                        cosine(query_vec, self.corpus_tfidf[i], vocabulary)])

\* Variants of the scoring steps, against which the properties are exercised.
\* Scaling by the maximum alone, without subtracting the minimum.
normalize_scores_by_max(scores) ==
    IF Len(scores) = 0 THEN scores
    ELSE LET max_val == Max(Range(scores))
         IN  IF max_val = 0 THEN [i \in 1..Len(scores) |-> <<0, 1>>]
             ELSE [i \in 1..Len(scores) |-> Frac(scores[i], max_val)]

\* Equal scores normalised to 1 whatever their common value.
normalize_scores_equal_to_one(scores) ==
    IF Len(scores) = 0 THEN scores
    ELSE LET min_val == Min(Range(scores))
             max_val == Max(Range(scores))
         IN  IF max_val = min_val
             THEN [i \in 1..Len(scores) |-> <<1, 1>>]
             ELSE [i \in 1..Len(scores) |->
                      Frac(scores[i] - min_val, max_val - min_val)]

\* A threshold that excludes the boundary.
valid_idx_exclusive(normalized_scores, min_score) ==
    SortedSeq({i \in 1..Len(normalized_scores) :
                 ~FracGE(min_score, normalized_scores[i])})

\* TFIDFModel.normalize_scores
normalize_scores(scores) ==
    IF Len(scores) = 0 THEN scores
    ELSE LET min_val == Min(Range(scores))
             max_val == Max(Range(scores))
         IN  IF max_val = min_val
             THEN [i \in 1..Len(scores) |-> IF max_val > 0 THEN <<1, 1>> ELSE <<0, 1>>]
             ELSE [i \in 1..Len(scores) |->
                      Frac(scores[i] - min_val, max_val - min_val)]

\* np.where(normalized_scores >= min_score)[0]: the indices kept, ascending.
valid_idx(normalized_scores, min_score) ==
    SortedSeq({i \in 1..Len(normalized_scores) :
                 FracGE(normalized_scores[i], min_score)})

\* np.argsort(-normalized_scores[valid_idx]) with the default kind, quicksort,
\* which numpy documents as not stable: every order of the positions that
\* sorts the scores descending is a possible result, whatever the order of
\* equal scores.
argsort_descending(keys) ==
    LET n == Len(keys)
    IN  {p \in [1..n -> 1..n] :
           /\ \A i, j \in 1..n : i # j => p[i] # p[j]
           /\ \A i \in 1..(n - 1) : FracGE(keys[p[i]], keys[p[i + 1]])}

\* TFIDFModel.rank: the outcomes the call can have, one for each order argsort
\* can produce. A returned frame is the sequence of its rows, each the corpus
\* row's index and its score; line 62 takes the minimum of the normalised
\* scores, which numpy refuses for an empty array.
rank(self, query, top_k, min_score) ==
    LET scores == compute_similarity(self, query)
    IN  IF Raised(scores) THEN {scores}
        ELSE LET normalized_scores == normalize_scores(scores.value)
                 valid == valid_idx(normalized_scores, min_score)
                 keys == [k \in 1..Len(valid) |-> normalized_scores[valid[k]]]
             IN  IF Len(normalized_scores) = 0 THEN {Raise("ValueError")}
                 ELSE IF Len(valid) = 0 THEN {Return(<<>>)}
                 ELSE {Return([k \in 1..Min({top_k, Len(valid)}) |->
                                 [idx |-> valid[p[k]],
                                  tfidf_score |-> normalized_scores[valid[p[k]]]]])
                       : p \in argsort_descending(keys)}

(***************************************************************************)
(* DataParser.parse_excel_bytes                                            *)
(*                                                                         *)
(* An uploaded file is either unreadable or a sheet: its header names and  *)
(* its rows, each row a function from header name to cell.                 *)
(***************************************************************************)

\* df.rename(columns={...})
rename_column(h) ==
    CASE h = "Name" -> "name"
      [] h = "Professional Title/Employment & Career" -> "employment"
      [] h = "Board Service" -> "board_service"
      [] OTHER -> h

\* DataParser._process_dataframe: df['employment'] and df['board_service']
\* raise KeyError when the sheet lacks the column.
process_dataframe(sheet) ==
    LET columns == {rename_column(h) : h \in sheet.columns}
        renamed(row) ==
            [c \in columns |-> row[CHOOSE h \in sheet.columns : rename_column(h) = c]]
        with_norm(row) ==
            [c \in columns \cup {"employment_norm", "board_service_norm"} |->
                CASE c = "employment_norm" -> normalize_text(row["employment"])
                  [] c = "board_service_norm" -> normalize_text(row["board_service"])
                  [] OTHER -> row[c]]
    IN  IF ~({"employment", "board_service"} \subseteq columns) THEN Raise("KeyError")
        ELSE Return([columns |-> columns \cup {"employment_norm", "board_service_norm"},
                     rows |-> [i \in 1..Len(sheet.rows) |->
                                  with_norm(renamed(sheet.rows[i]))]])

\* pd.read_excel raises on bytes that are no workbook.
parse_excel_bytes(contents) ==
    IF contents.kind = "corrupt" THEN Raise("ValueError")
    ELSE process_dataframe(contents)

(***************************************************************************)
(* The service: main.py                                                    *)
(***************************************************************************)

VARIABLES
    search_model,   \* global search_model: None or a TFIDFModel
    dataset,        \* global dataset: None or the parsed frame
    uploads,        \* /upload requests suspended at `await file.read()`
    request,        \* the last /match request handled
    response,       \* the last response sent
    ever_fitted,    \* history: some fit_corpus call has returned
    text,           \* normalize_text: the input
    once,           \* normalize_text(text)
    twice,          \* normalize_text(normalize_text(text))
    stage           \* normalize_text: how far the input has been taken

vars == <<search_model, dataset, uploads, request, response, ever_fitted,
          text, once, twice, stage>>

service_vars == <<search_model, dataset, uploads, request, response, ever_fitted>>

normalizer_vars == <<text, once, twice, stage>>

\* Rows of a sheet uploaded while requests interleave.
MaxUploadRows == 1

\* Rows of the corpus an index is fitted over, for the properties of rank.
MaxRows == 3

\* Placeholder phrases joined into one input of normalize_text.
MaxPhrases == 2

\* /upload requests in flight at once.
MaxUploads == 1

\* top_k values tried, from 1.
MaxTopK == 2

\* MatchRequest.top_k: Field(default=10, ge=1, le=100)
top_k_le == 100

Headers == {"Name", "Professional Title/Employment & Career", "Board Service"}

Names == <<"p1", "p2", "p3", "p4", "p5", "p6">>

\* The employment and board-service cells a row is drawn from.
RawRows ==
    { << <<"A","c","m","e"," ","B","a","n","k">>, <<>> >>,
      << <<"A","c","m","e"," ","I","n","c">>, <<"R","e","t","i","r","e","d">> >>,
      << <<"r","e","t","i","r","e","d">>, <<>> >> }

SheetRow(i, cells) ==
    [h \in Headers |->
        CASE h = "Name" -> Names[i]
          [] h = "Professional Title/Employment & Career" -> cells[1]
          [] h = "Board Service" -> cells[2]]

Sheet(cells) ==
    [kind |-> "sheet", columns |-> Headers,
     rows |-> [i \in 1..Len(cells) |-> SheetRow(i, cells[i])]]

\* The well-formed sheets of at most n rows.
Sheets(n) == {Sheet(cells) : cells \in UNION {[1..k -> RawRows] : k \in 0..n}}

FileContents ==
    {[kind |-> "corrupt"],
     [kind |-> "sheet", columns |-> Headers \ {"Name"}, rows |-> <<>>],
     [kind |-> "sheet", columns |-> Headers \ {"Board Service"}, rows |-> <<>>]}
    \cup Sheets(MaxUploadRows)

Filenames ==
    { <<"d",".","x","l","s","x">>, <<"d",".","x","l","s">>, <<"d",".","c","s","v">> }

Queries ==
    { <<"A","c","m","e"," ","o","f"," ","B","a","n","k">>,
      <<"a","c","m","e">>,
      <<"Z","e","t","a">>,
      <<" ">> }

\* MatchRequest.min_score: Field(default=0.8, ge=0.0, le=1.0), as fractions.
MinScores == { <<0, 1>>, <<1, 2>>, <<1, 1>> }

\* The requests pydantic lets through to match_connections.
MatchRequests ==
    [query : Queries, top_k : 1..Min({MaxTopK, top_k_le}), min_score : MinScores]

\* str.endswith
endswith(s, suffix) ==
    Len(s) >= Len(suffix) /\ SubSeq(s, Len(s) - Len(suffix) + 1, Len(s)) = suffix

HTTPException(endpoint, status_code, detail) ==
    [endpoint |-> endpoint, status_code |-> status_code, detail |-> detail]

\* upload_dataset up to its `await file.read()`: the file type is validated,
\* and the handler is suspended.
UploadBegin(filename) ==
    /\ uploads < MaxUploads
    /\ IF ~(endswith(filename, <<".","x","l","s","x">>)
              \/ endswith(filename, <<".","x","l","s">>))
       THEN /\ response' = HTTPException("/upload", 400, "File must be an Excel file")
            /\ UNCHANGED uploads
       ELSE /\ uploads' = uploads + 1
            /\ UNCHANGED response
    /\ UNCHANGED <<search_model, dataset, request, ever_fitted, normalizer_vars>>

\* upload_dataset from the bytes read to its return: one run of the event loop,
\* which no other handler interleaves. Every exception, the HTTPException for
\* missing columns included, is turned into a 500 by `except Exception`; the
\* globals keep what was assigned before it was raised.
UploadFinish(contents) ==
    /\ uploads > 0
    /\ uploads' = uploads - 1
    /\ LET parsed == parse_excel_bytes(contents)
           failed == HTTPException("/upload", 500, "Error processing file")
       IN  IF Raised(parsed)
           THEN /\ response' = failed
                /\ UNCHANGED <<search_model, dataset, ever_fitted>>
           ELSE LET df == parsed.value
                    required_cols == {"name", "employment", "board_service",
                                      "employment_norm", "board_service_norm"}
                    fit == fit_corpus(TFIDFModel, df)
                IN  IF ~(required_cols \subseteq df.columns)
                    THEN /\ response' = failed
                         /\ UNCHANGED <<search_model, dataset, ever_fitted>>
                    ELSE /\ dataset' = df
                         /\ search_model' = fit.self
                         /\ ever_fitted' = (ever_fitted \/ ~fit.raised)
                         /\ response' =
                              IF fit.raised THEN failed
                              ELSE [endpoint |-> "/upload", status_code |-> 200,
                                    status |-> "success",
                                    rows_loaded |-> Len(df.rows),
                                    columns |-> df.columns]
    /\ UNCHANGED <<request, normalizer_vars>>

\* The body of a 200 /match response for the frame rank returned: the rows in
\* the frame's order, iterrows' index after reset_index being 0, 1, ...
MatchResponse(req, results_df) ==
    [endpoint |-> "/match", status_code |-> 200,
     query |-> req.query,
     total_matches |-> Len(results_df),
     matches |-> [k \in 1..Len(results_df) |->
                    LET row == search_model.df.rows[results_df[k].idx]
                    IN  [name |-> row["name"],
                         employment |-> row["employment"],
                         board_service |-> row["board_service"],
                         score |-> results_df[k].tfidf_score,
                         rank |-> (k - 1) + 1]]]

\* What match_connections can answer to req in the current state; an exception
\* out of rank is not caught and becomes FastAPI's 500.
MatchOutcomes(req) ==
    IF search_model = None \/ dataset = None
    THEN {HTTPException("/match", 400, "No dataset loaded")}
    ELSE IF strip(req.query) = <<>>
    THEN {HTTPException("/match", 400, "Query cannot be empty")}
    ELSE {IF Raised(r) THEN HTTPException("/match", 500, "Internal Server Error")
          ELSE MatchResponse(req, r.value)
          : r \in rank(search_model, req.query, req.top_k, req.min_score)}

\* match_connections: no await, so the whole handler is one step.
Match(req) ==
    /\ request' = req
    /\ response' \in MatchOutcomes(req)
    /\ UNCHANGED <<search_model, dataset, uploads, ever_fitted, normalizer_vars>>

Init ==
    /\ search_model = None
    /\ dataset = None
    /\ uploads = 0
    /\ request = None
    /\ response = None
    /\ ever_fitted = FALSE
    /\ text = <<>>
    /\ once = <<>>
    /\ twice = <<>>
    /\ stage = "idle"

Next ==
    \/ \E filename \in Filenames : UploadBegin(filename)
    \/ \E contents \in FileContents : UploadFinish(contents)
    \/ \E req \in MatchRequests : Match(req)

Spec == Init /\ [][Next]_vars

(***************************************************************************)
(* rank as a function of the index and the request: every index fitted     *)
(* over a sheet of at most MaxRows rows, as a successful /upload leaves    *)
(* it, and one /match request on it.                                       *)
(***************************************************************************)

InitRank ==
    /\ \E sheet \in Sheets(MaxRows) :
         \E fit \in {fit_corpus(TFIDFModel, parse_excel_bytes(sheet).value)} :
           /\ ~fit.raised
           /\ dataset = parse_excel_bytes(sheet).value
           /\ search_model = fit.self
           /\ response = [endpoint |-> "/upload", status_code |-> 200,
                          status |-> "success",
                          rows_loaded |-> Len(sheet.rows),
                          columns |-> fit.self.df.columns]
    /\ uploads = 0
    /\ request = None
    /\ ever_fitted = TRUE
    /\ text = <<>>
    /\ once = <<>>
    /\ twice = <<>>
    /\ stage = "idle"

Query(req) == request = None /\ Match(req)

NextRank == \E req \in MatchRequests : Query(req)

SpecRank == InitRank /\ [][NextRank]_vars

(***************************************************************************)
(* normalize_text as a function of its input, applied once and again.      *)
(***************************************************************************)

\* The texts made of n placeholder phrases, one space between two.
RECURSIVE PhraseTexts(_)
PhraseTexts(n) ==
    IF n = 0 THEN {<<>>}
    ELSE IF n = 1 THEN Range(ignore_strings)
    ELSE {t \o <<" ">> \o s : t \in PhraseTexts(n - 1), s \in Range(ignore_strings)}

PlaceholderTexts == UNION {PhraseTexts(n) : n \in 0..MaxPhrases}

SampleTexts ==
    { <<"c","h","i","e","f"," ","e","x","e","c","u","t","i","v","e"," ","o","f","f","i","c","e","r"," ","o","f"," ","A","c","m","e"," ","C","o","r","p"," ","2","0","1","0","-","2","0","1","5">>,
      <<"A","c","m","e"," ","o","f"," ","B","a","n","k">>,
      <<"C","E","O",",","<","b","r"," ","/",">","A","c","m","e"," ","I","n","c",".">>,
      <<"n","o"," "," ","i","n","f","o"," ","a","v","a","i","l","a","b","l","e">>,
      <<"N","o"," ","b","o","a","r","d","-","s","e","r","v","i","c","e"," ","i","n","f","o">>,
      <<"r","e","t","r","e","t","i","r","e","d","i","r","e","d">>,
      <<"1","9","9","9"," ","-"," ","p","r","e","s","e","n","t","l","y">> }

InputTexts == PlaceholderTexts \cup SampleTexts

InitNorm ==
    /\ text \in InputTexts
    /\ once = <<>>
    /\ twice = <<>>
    /\ stage = "input"
    /\ search_model = None
    /\ dataset = None
    /\ uploads = 0
    /\ request = None
    /\ response = None
    /\ ever_fitted = FALSE

NormalizeOnce ==
    /\ stage = "input"
    /\ once' = normalize_text(text)
    /\ stage' = "once"
    /\ UNCHANGED <<text, twice, service_vars>>

NormalizeTwice ==
    /\ stage = "once"
    /\ twice' = normalize_text(once)
    /\ stage' = "twice"
    /\ UNCHANGED <<text, once, service_vars>>

NextNorm == NormalizeOnce \/ NormalizeTwice

SpecNorm == InitNorm /\ [][NextNorm]_vars

(***************************************************************************)
(* Properties                                                              *)
(***************************************************************************)

\* The last step answered a /match request by a ranked result.
Ranked ==
    /\ request # None
    /\ response.endpoint = "/match"
    /\ response.status_code = 200

\* The last step handled a /match request that reached rank on a fitted index.
Scored ==
    /\ request # None
    /\ response.endpoint = "/match"
    /\ search_model # None
    /\ search_model.vectorizer.fitted
    /\ strip(request.query) # <<>>

\* The raw and the normalised scores of the last request's query.
RawScores == compute_similarity(search_model, request.query).value

NormalizedScores == normalize_scores(RawScores)

\* The records whose normalised score reaches min_score, the boundary included.
Eligible(normalized) ==
    {i \in 1..Len(normalized) : FracGE(normalized[i], request.min_score)}

\* C1: rank returns at most top_k results, none of them with a normalised score
\* below min_score, and a record whose score equals min_score is eligible: the
\* result holds top_k records, or every record at or above the threshold.
C1_AtMostTopKAboveMinScore ==
    Ranked =>
        \A normalized \in {NormalizedScores} :
            /\ Len(response.matches) <= request.top_k
            /\ \A k \in 1..Len(response.matches) :
                  FracGE(response.matches[k].score, request.min_score)
            /\ Len(response.matches) =
                  Min({request.top_k, Cardinality(Eligible(normalized))})
            /\ response.total_matches = Len(response.matches)

\* A result cut to top_k whose last record sits exactly on a positive threshold.
C1_Witness ==
    /\ Ranked
    /\ Cardinality(Eligible(NormalizedScores)) > request.top_k
    /\ request.min_score # <<0, 1>>
    /\ Len(response.matches) = request.top_k
    /\ response.matches[request.top_k].score = request.min_score

\* The eligible records by descending score, equal scores by ascending corpus
\* index: the k-th is the one that k - 1 others precede.
StableOrder(normalized) ==
    LET eligible == Eligible(normalized)
        before(j, i) ==
            \/ ~FracGE(normalized[i], normalized[j])
            \/ /\ normalized[i] = normalized[j]
               /\ j < i
    IN  [k \in 1..Cardinality(eligible) |->
            CHOOSE i \in eligible :
                Cardinality({j \in eligible : before(j, i)}) = k - 1]

\* C2: the result is the first top_k of the eligible records by descending
\* score, equal scores in ascending corpus order, with ranks 1, 2, ..., n.
C2_StableDescendingOrder ==
    Ranked =>
        \A normalized \in {NormalizedScores} :
            \A order \in {StableOrder(normalized)} :
                response.matches =
                    [k \in 1..Min({request.top_k, Len(order)}) |->
                        LET row == search_model.df.rows[order[k]]
                        IN  [name |-> row["name"],
                             employment |-> row["employment"],
                             board_service |-> row["board_service"],
                             score |-> normalized[order[k]],
                             rank |-> k]]

\* C3: whatever /match reads, search_model and dataset are both unset, or
\* search_model is an index fitted over exactly the dataset stored.
C3_NoTornIndex ==
    \/ search_model = None /\ dataset = None
    \/ /\ search_model # None
       /\ dataset # None
       /\ search_model.vectorizer.fitted
       /\ search_model.df = dataset
       /\ Len(search_model.corpus_tfidf) = Len(dataset.rows)

\* C4: as long as no corpus has been fitted, /match answers "No dataset loaded".
C4_NoDatasetLoaded ==
    (/\ ~ever_fitted
     /\ request # None
     /\ response.endpoint = "/match"
     /\ strip(request.query) # <<>>) =>
        /\ response.status_code = 400
        /\ response.detail = "No dataset loaded"

\* C5: a corpus of zero records is fitted without error and every query on it
\* is answered by an empty result.
C5_EmptyCorpusUsable ==
    (dataset # None /\ Len(dataset.rows) = 0) =>
        /\ search_model.vectorizer.fitted
        /\ response.status_code # 500
        /\ (response.endpoint = "/match" /\ strip(request.query) # <<>>) =>
              /\ response.status_code = 200
              /\ response.matches = <<>>

\* C6: querying with q gives what querying with normalize_text(q) gives.
C6_QueryNormalizedLikeCorpus ==
    Ranked =>
        response.matches \in
            {MatchResponse(request, r.value).matches :
                r \in {o \in rank(search_model, normalize_text(request.query),
                                  request.top_k, request.min_score) : ~Raised(o)}}

\* C7: normalize_text(normalize_text(text)) = normalize_text(text).
C7_NormalizeIdempotent == stage = "twice" => twice = once

\* C8: the empty string, and any text made only of placeholder phrases, is
\* normalised to the empty string.
C8_PlaceholdersNormalizeToEmpty ==
    (stage \in {"once", "twice"} /\ text \in PlaceholderTexts) => once = <<>>

\* C9: the normalised scores of a non-empty corpus lie in [0, 1]; unless all raw
\* scores are equal the minimum maps to 0 and the maximum to 1, and the top
\* result has score 1.
C9_NormalizedInUnitInterval ==
    Scored =>
        \A scores \in {RawScores} :
            \A normalized \in {normalize_scores(scores)} :
                Len(scores) > 0 =>
                    LET lo == Min(Range(scores))
                        hi == Max(Range(scores))
                    IN  /\ Len(normalized) = Len(scores)
                        /\ \A i \in 1..Len(normalized) :
                              /\ normalized[i][2] > 0
                              /\ FracGE(normalized[i], <<0, 1>>)
                              /\ FracGE(<<1, 1>>, normalized[i])
                        /\ lo # hi =>
                              /\ \A i \in 1..Len(scores) :
                                    /\ scores[i] = lo => normalized[i] = <<0, 1>>
                                    /\ scores[i] = hi => normalized[i] = <<1, 1>>
                              /\ response.status_code = 200
                              /\ Len(response.matches) >= 1
                              /\ response.matches[1].score = <<1, 1>>

\* Three distinct raw scores, the middle one normalised strictly inside (0, 1).
C9_Witness ==
    /\ Scored
    /\ \A scores \in {RawScores} :
          /\ Cardinality(Range(scores)) >= 3
          /\ \E i \in 1..Len(scores) :
                /\ scores[i] # Min(Range(scores))
                /\ scores[i] # Max(Range(scores))
                /\ ~FracGE(<<0, 1>>, normalize_scores(scores)[i])
                /\ ~FracGE(normalize_scores(scores)[i], <<1, 1>>)
    /\ response.status_code = 200
    /\ response.matches[1].score = <<1, 1>>

\* C10: equal raw scores are normalised to 1 everywhere when the common value is
\* positive and to 0 everywhere otherwise; a query that matches no document,
\* under a positive min_score, is answered by a 200 with zero matches.
C10_DegenerateScores ==
    Scored =>
        \A scores \in {RawScores} :
            \A normalized \in {normalize_scores(scores)} :
                (Len(scores) > 0 /\ Cardinality(Range(scores)) = 1) =>
                    /\ \A i \in 1..Len(normalized) :
                          normalized[i] =
                              IF scores[i] > 0 THEN <<1, 1>> ELSE <<0, 1>>
                    /\ (scores[1] = 0 /\ request.min_score # <<0, 1>>) =>
                          /\ response.status_code = 200
                          /\ response.total_matches = 0
                          /\ response.matches = <<>>

\* No document of a corpus of several matches the query, and min_score > 0.
C10_Witness ==
    /\ Scored
    /\ \A scores \in {RawScores} :
          /\ Len(scores) >= 2
          /\ \A i \in 1..Len(scores) : scores[i] = 0
    /\ request.min_score # <<0, 1>>
    /\ response.status_code = 200
    /\ response.total_matches = 0

====
